---- MODULE Spec2Model ----
(***************************************************************************)
(* The task list of src/src/App.jsx as a state machine: the React state    *)
(* (todos, inputValue, loading), the three buckets derived on every render,*)
(* the remote 'todos' table behind the supabase client, and the remote     *)
(* calls that are in flight between a handler's await and its resumption.  *)
(*                                                                         *)
(* Instants are integers; SlotsPerDay consecutive instants make one local  *)
(* calendar day.  A handler closes over the todos of the render it was     *)
(* created in: that captured array is the field snap of the call.          *)
(*                                                                         *)
(* The sign-in form of src/src/Auth.jsx is the variable auth, with its own *)
(* actions and specification.                                              *)
(***************************************************************************)
EXTENDS Integers, Sequences, FiniteSets, TLC

VARIABLES
    todos,       \* useState([])   : the local collection, a sequence of rows
    inputValue,  \* useState('')   : the text of the input box
    loading,     \* useState(true)
    view,        \* the three buckets computed by the last render
    remote,      \* the rows of the remote 'todos' table
    nextId,      \* the id the remote table assigns to the next inserted row
    clock,       \* the instant new Date() returns
    pending,     \* remote calls issued and not yet resumed, in issue order
    console,     \* the kinds of call for which console.error has been called
    calls,       \* history: how many remote calls the handlers have sent
    removed,     \* history: ids whose deleteTodo resumed without error
    rejected,    \* history: the last handler step was an addTodo that returned
                 \* at its guard
    auth         \* the state of the Auth component of src/src/Auth.jsx and
                 \* its request in flight

vars == <<todos, inputValue, loading, view, remote, nextId, clock, pending,
          console, calls, removed, rejected, auth>>

----------------------------------------------------------------------------
(* Bounds of the model.                                                    *)

\* Remote calls the handlers send in one session.
MaxCalls == 2

\* The last instant of the session (it starts at instant 1).
MaxClock == 2

----------------------------------------------------------------------------
(* Values.                                                                 *)

\* null, the value of completed_date of an open task.
NULL == -1

\* Instants per local calendar day (what toLocaleDateString forgets).
SlotsPerDay == 2

Chars == {" ", "a"}

IsSpace(c) == c = " "

\* What the user may type into the input box.
Texts == {<<>>, <<" ">>, <<"a">>}

NoRow ==
    [id |-> 0, text |-> <<>>, completed |-> FALSE,
     created_date |-> NULL, completed_date |-> NULL]

NoUpdates == [completed |-> FALSE, completed_date |-> NULL]

\* String.prototype.trim: leading and trailing white space removed.
RECURSIVE TrimLeft(_)
TrimLeft(s) ==
    IF s # <<>> /\ IsSpace(Head(s)) THEN TrimLeft(Tail(s)) ELSE s

RECURSIVE TrimRight(_)
TrimRight(s) ==
    IF s # <<>> /\ IsSpace(s[Len(s)])
    THEN TrimRight(SubSeq(s, 1, Len(s) - 1))
    ELSE s

Trim(s) == TrimRight(TrimLeft(s))

\* getDateString: the local calendar date of an instant.
getDateString(date) == date \div SlotsPerDay

\* isToday, with the instant its call of new Date() returned.
isToday(date, now) == getDateString(date) = getDateString(now)

----------------------------------------------------------------------------
(* Sequences.                                                              *)

\* Array.prototype.filter: the rows of ts at the indices in keep, in order.
Filter(ts, keep) ==
    LET F[i \in 0..Len(ts)] ==
            IF i = 0 THEN <<>>
            ELSE IF i \in keep THEN Append(F[i - 1], ts[i]) ELSE F[i - 1]
    IN  F[Len(ts)]

RemoveAt(s, i) == SubSeq(s, 1, i - 1) \o SubSeq(s, i + 1, Len(s))

Ids(ts) == {ts[i].id : i \in 1..Len(ts)}

Items(ts) == {ts[i] : i \in 1..Len(ts)}

----------------------------------------------------------------------------
(* The render: the three filters of the component body.  Each isToday call *)
(* reads the clock anew; the clock may move on by one instant after the    *)
(* first k date comparisons of the render (k counts filter by filter, row  *)
(* by row).                                                                *)

\* The filters with the completed_date test of the last two left out.
BucketsUndatedKept(ts, t0, k) ==
    LET n == Len(ts)
        NowAt(p) == IF p > k THEN t0 + 1 ELSE t0
    IN  [todayTasks     |-> Filter(ts, {i \in 1..n :
                                /\ ~ts[i].completed
                                /\ isToday(ts[i].created_date, NowAt(i))}),
         todayCompleted |-> Filter(ts, {i \in 1..n :
                                /\ ts[i].completed
                                /\ isToday(ts[i].completed_date, NowAt(n + i))}),
         pastCompleted  |-> Filter(ts, {i \in 1..n :
                                /\ ts[i].completed
                                /\ ~isToday(ts[i].completed_date, NowAt(2 * n + i))})]

Buckets(ts, t0, k) ==
    LET n == Len(ts)
        NowAt(p) == IF p > k THEN t0 + 1 ELSE t0
        InTodayTasks(i) ==
            /\ ~ts[i].completed
            /\ isToday(ts[i].created_date, NowAt(i))
        InTodayCompleted(i) ==
            /\ ts[i].completed
            /\ ts[i].completed_date # NULL
            /\ isToday(ts[i].completed_date, NowAt(n + i))
        InPastCompleted(i) ==
            /\ ts[i].completed
            /\ ts[i].completed_date # NULL
            /\ ~isToday(ts[i].completed_date, NowAt(2 * n + i))
    IN  [todayTasks     |-> Filter(ts, {i \in 1..n : InTodayTasks(i)}),
         todayCompleted |-> Filter(ts, {i \in 1..n : InTodayCompleted(i)}),
         pastCompleted  |-> Filter(ts, {i \in 1..n : InPastCompleted(i)})]

Render(ts) ==
    \E k \in 0..(3 * Len(ts)) :
        /\ (k < 3 * Len(ts)) => clock < MaxClock
        /\ view' = Buckets(ts, clock, k)
        /\ clock' = IF k < 3 * Len(ts) THEN clock + 1 ELSE clock

\* The rows that have a TodoItem on screen (with its checkbox and button).
Rendered ==
    IF loading THEN {}
    ELSE Items(view.todayTasks) \cup Items(view.todayCompleted)
             \cup Items(view.pastCompleted)

----------------------------------------------------------------------------
(* The remote table.                                                       *)

\* .order('created_date', { ascending: false }): the rows, newest first.
ListAll(rows) ==
    {s \in [1..Cardinality(rows) -> rows] :
        /\ \A i, j \in DOMAIN s : i # j => s[i] # s[j]
        /\ \A i, j \in DOMAIN s : i < j => s[i].created_date >= s[j].created_date}

\* A row written in an earlier session, at instant 0: inserted open, then
\* possibly toggled.
OldRow(id, completed) ==
    [id |-> id, text |-> <<"a">>, completed |-> completed,
     created_date |-> 0, completed_date |-> IF completed THEN 0 ELSE NULL]

\* The tables the session may start with.
InitialTables == {{}, {OldRow(1, FALSE)}, {OldRow(1, TRUE)}}

Call(kind, id, text, updates) ==
    [kind |-> kind, id |-> id, text |-> text, updates |-> updates,
     snap |-> todos, phase |-> "sent", data |-> NoRow]

----------------------------------------------------------------------------
(* The values of src/src/Auth.jsx.                                         *)

\* error is null, and a reply carries no error.
NoError == "null"

\* error.message of a failed signUp or signInWithPassword.
Messages(method) ==
    IF method = "signUp" THEN {"User already registered"}
    ELSE {"Invalid login credentials"}

\* What the user may type in the two inputs.
Usernames == {<<>>, <<"A">>, <<"a">>}

Passwords == {<<>>, <<"p">>, <<"p", "p", "p", "p", "p", "p">>}

\* minLength={6} of the password input.
minLength == 6

toLowerCase(c) == IF c = "A" THEN "a" ELSE c

\* `${username.toLowerCase()}@simpletodo.app`
toEmail(username) ==
    [k \in DOMAIN username |-> toLowerCase(username[k])] \o <<"@simpletodo.app">>

NoRequest ==
    [phase |-> "none", method |-> "", email |-> <<>>, password |-> <<>>,
     message |-> NoError]

\* useState(false), useState(''), useState(''), useState(false),
\* useState(null); no request has been sent.
AuthInitial ==
    [isSignUp |-> FALSE, username |-> <<>>, password |-> <<>>,
     loading |-> FALSE, error |-> NoError, request |-> NoRequest]

----------------------------------------------------------------------------
Init ==
    /\ todos = <<>>
    /\ inputValue = <<>>
    /\ loading = TRUE
    /\ view = Buckets(<<>>, 1, 0)
    /\ remote \in InitialTables
    /\ nextId = Cardinality(remote) + 1
    /\ clock = 1
    /\ pending = <<>>
    /\ console = {}
    /\ calls = 0
    /\ removed = {}
    /\ rejected = FALSE
    /\ auth = AuthInitial

\* Time passes.
Tick ==
    /\ clock < MaxClock
    /\ clock' = clock + 1
    /\ UNCHANGED <<auth, todos, inputValue, loading, view, remote, nextId, pending,
                   console, calls, removed, rejected>>

\* fetchTodos with setLoading(false) in the success branch only.
fetchTodosLoadingOnError ==
    /\ loading
    /\ \/ /\ \E data \in ListAll(remote) : todos' = data
          /\ loading' = FALSE
          /\ UNCHANGED console
       \/ /\ todos' = todos
          /\ loading' = TRUE
          /\ console' = console \cup {"fetch"}
    /\ rejected' = FALSE
    /\ Render(todos')
    /\ UNCHANGED <<auth, inputValue, remote, nextId, pending, calls, removed>>

\* fetchTodos, started by the effect on mount, settles.
fetchTodos ==
    /\ loading
    /\ \/ /\ \E data \in ListAll(remote) : todos' = data
          /\ UNCHANGED console
       \/ /\ todos' = todos
          /\ console' = console \cup {"fetch"}
    /\ rejected' = FALSE
    /\ loading' = FALSE
    /\ Render(todos')
    /\ UNCHANGED <<auth, inputValue, remote, nextId, pending, calls, removed>>

\* onChange of the input box.
setInputValue(v) ==
    /\ ~loading
    /\ v # inputValue
    /\ inputValue' = v
    /\ Render(todos)
    /\ rejected' = FALSE
    /\ UNCHANGED <<auth, todos, loading, remote, nextId, pending, console, calls,
                   removed>>

----------------------------------------------------------------------------
(* addTodo.                                                                *)

\* addTodo's guard without the trim: only the empty string is refused.
addTodoRejectsUntrimmed(v) == v = <<>>

\* if (inputValue.trim() === '') return
addTodoRejects(v) == Trim(v) = <<>>

\* The part of addTodo up to its await: the insert is sent, or nothing is.
addTodo ==
    /\ ~loading
    /\ IF addTodoRejects(inputValue)
       THEN /\ UNCHANGED <<pending, calls>>
            /\ rejected' = TRUE
       ELSE /\ calls < MaxCalls
            /\ pending' = Append(pending, Call("insert", 0, inputValue, NoUpdates))
            /\ calls' = calls + 1
            /\ rejected' = FALSE
    /\ UNCHANGED <<auth, todos, inputValue, loading, view, remote, nextId, clock,
                   console, removed>>

\* An error branch that logs nothing.
LogErrorDropped(kind) == console

\* console.error(...)
LogError(kind) == console \cup {kind}

\* addTodo spreading the returned array after its first row:
\* [data[0], ...data, ...todos].
addTodoSettledTwice(cur, snap, data, error) ==
    IF error THEN cur ELSE <<data>> \o <<data>> \o snap

\* What addTodo gives setTodos, or the collection it leaves alone on error.
\* The new row put after the rows addTodo captured instead of before them.
addTodoSettledAppended(cur, snap, data, error) ==
    IF error THEN cur ELSE snap \o <<data>>

addTodoSettled(cur, snap, data, error) ==
    IF error THEN cur ELSE <<data>> \o snap

\* The part of addTodo after its await.
addTodoResume(i) ==
    LET c == pending[i] IN
    /\ c.kind = "insert"
    /\ c.phase # "sent"
    /\ todos' = addTodoSettled(todos, c.snap, c.data, c.phase = "error")
    /\ IF c.phase = "error"
       THEN /\ console' = LogError("insert")
            /\ UNCHANGED <<inputValue, view, clock>>
       ELSE /\ inputValue' = <<>>
            /\ Render(todos')
            /\ UNCHANGED console
    /\ pending' = RemoveAt(pending, i)
    /\ rejected' = FALSE
    /\ UNCHANGED <<auth, loading, remote, nextId, calls, removed>>

----------------------------------------------------------------------------
(* toggleTodo.                                                             *)

\* The updates with completed_date stamped on every toggle.
ToggleUpdatesAlwaysDated(completed, now) ==
    [completed |-> ~completed, completed_date |-> now]

\* const updates = { completed: !completed, completed_date: ... }
ToggleUpdates(completed, now) ==
    [completed |-> ~completed,
     completed_date |-> IF ~completed THEN now ELSE NULL]

\* The updates put in place of the row, without the spread of the row.
MergeUpdatesOnly(todo, updates) ==
    [NoRow EXCEPT !.completed = updates.completed,
                  !.completed_date = updates.completed_date]

\* { ...todo, ...updates }
Merge(todo, updates) ==
    [todo EXCEPT !.completed = updates.completed,
                 !.completed_date = updates.completed_date]

\* toggleTodo applying the updates to the local row before its await.
toggleTodoOptimistic(t) ==
    LET updates == ToggleUpdates(t.completed, clock)
    IN  /\ t \in Rendered
        /\ calls < MaxCalls
        /\ pending' = Append(pending, Call("update", t.id, <<>>, updates))
        /\ calls' = calls + 1
        /\ todos' = [j \in DOMAIN todos |->
                          IF todos[j].id = t.id THEN Merge(todos[j], updates)
                          ELSE todos[j]]
        /\ Render(todos')
        /\ rejected' = FALSE
        /\ UNCHANGED <<auth, inputValue, loading, remote, nextId, console, removed>>

\* The part of toggleTodo up to its await, called by the checkbox of a
\* rendered row t with (t.id, t.completed).
toggleTodo(t) ==
    /\ t \in Rendered
    /\ calls < MaxCalls
    /\ pending' = Append(pending,
                         Call("update", t.id, <<>>, ToggleUpdates(t.completed, clock)))
    /\ calls' = calls + 1
    /\ rejected' = FALSE
    /\ UNCHANGED <<auth, todos, inputValue, loading, view, remote, nextId, clock,
                   console, removed>>

\* toggleTodo restoring the collection of its own render on error.
toggleTodoSettledRollback(cur, snap, id, updates, error) ==
    IF error THEN snap
    ELSE [j \in DOMAIN snap |->
             IF snap[j].id = id THEN Merge(snap[j], updates) ELSE snap[j]]

\* What toggleTodo gives setTodos, or the collection it leaves alone on error.
toggleTodoSettled(cur, snap, id, updates, error) ==
    IF error THEN cur
    ELSE [j \in DOMAIN snap |->
             IF snap[j].id = id THEN Merge(snap[j], updates) ELSE snap[j]]

\* The part of toggleTodo after its await.
toggleTodoResume(i) ==
    LET c == pending[i] IN
    /\ c.kind = "update"
    /\ c.phase # "sent"
    /\ todos' = toggleTodoSettled(todos, c.snap, c.id, c.updates, c.phase = "error")
    /\ IF c.phase = "error"
       THEN /\ console' = LogError("update")
            /\ UNCHANGED <<view, clock>>
       ELSE /\ Render(todos')
            /\ UNCHANGED console
    /\ pending' = RemoveAt(pending, i)
    /\ rejected' = FALSE
    /\ UNCHANGED <<auth, inputValue, loading, remote, nextId, calls, removed>>

----------------------------------------------------------------------------
(* deleteTodo.                                                             *)

\* The part of deleteTodo up to its await, called by the button of a
\* rendered row t with t.id.
deleteTodo(t) ==
    /\ t \in Rendered
    /\ calls < MaxCalls
    /\ pending' = Append(pending, Call("delete", t.id, <<>>, NoUpdates))
    /\ calls' = calls + 1
    /\ rejected' = FALSE
    /\ UNCHANGED <<auth, todos, inputValue, loading, view, remote, nextId, clock,
                   console, removed>>

\* deleteTodo filtering the row out whatever the call returned.
deleteTodoSettledAnyway(cur, snap, id, error) ==
    Filter(snap, {j \in DOMAIN snap : snap[j].id # id})

\* What deleteTodo gives setTodos, or the collection it leaves alone on error.
deleteTodoSettled(cur, snap, id, error) ==
    IF error THEN cur
    ELSE Filter(snap, {j \in DOMAIN snap : snap[j].id # id})

\* The part of deleteTodo after its await.
deleteTodoResume(i) ==
    LET c == pending[i] IN
    /\ c.kind = "delete"
    /\ c.phase # "sent"
    /\ todos' = deleteTodoSettled(todos, c.snap, c.id, c.phase = "error")
    /\ IF c.phase = "error"
       THEN /\ console' = LogError("delete")
            /\ UNCHANGED <<view, clock, removed>>
       ELSE /\ Render(todos')
            /\ removed' = removed \cup {c.id}
            /\ UNCHANGED console
    /\ pending' = RemoveAt(pending, i)
    /\ rejected' = FALSE
    /\ UNCHANGED <<auth, inputValue, loading, remote, nextId, calls>>

----------------------------------------------------------------------------
(* The remote table serving a call that has been sent.                     *)

Settle(i, phase, data) ==
    [pending EXCEPT ![i].phase = phase, ![i].data = data]

\* .insert([{ text }]).select(): the table sets id and created_date, and
\* the defaults completed = false, completed_date = null.
RemoteInsert(i) ==
    LET row == [id |-> nextId, text |-> pending[i].text, completed |-> FALSE,
                created_date |-> clock, completed_date |-> NULL]
    IN  /\ pending[i].kind = "insert"
        /\ pending[i].phase = "sent"
        /\ remote' = remote \cup {row}
        /\ nextId' = nextId + 1
        /\ pending' = Settle(i, "ok", row)
        /\ UNCHANGED <<auth, todos, inputValue, loading, view, clock, console,
                       calls, removed, rejected>>

\* .update(updates).eq('id', id): every row with that id, none included.
RemoteUpdate(i) ==
    /\ pending[i].kind = "update"
    /\ pending[i].phase = "sent"
    /\ remote' = {IF r.id = pending[i].id THEN Merge(r, pending[i].updates) ELSE r :
                     r \in remote}
    /\ pending' = Settle(i, "ok", NoRow)
    /\ UNCHANGED <<auth, todos, inputValue, loading, view, nextId, clock, console,
                   calls, removed, rejected>>

\* .delete().eq('id', id)
RemoteDelete(i) ==
    /\ pending[i].kind = "delete"
    /\ pending[i].phase = "sent"
    /\ remote' = {r \in remote : r.id # pending[i].id}
    /\ pending' = Settle(i, "ok", NoRow)
    /\ UNCHANGED <<auth, todos, inputValue, loading, view, nextId, clock, console,
                   calls, removed, rejected>>

\* The call comes back with an error and the table as it was.
RemoteError(i) ==
    /\ pending[i].phase = "sent"
    /\ pending' = Settle(i, "error", NoRow)
    /\ UNCHANGED <<auth, todos, inputValue, loading, view, remote, nextId, clock,
                   console, calls, removed, rejected>>

----------------------------------------------------------------------------
Next ==
    \/ Tick
    \/ fetchTodos
    \/ \E v \in Texts : setInputValue(v)
    \/ addTodo
    \/ \E t \in Rendered : toggleTodo(t)
    \/ \E t \in Rendered : deleteTodo(t)
    \/ \E i \in DOMAIN pending : RemoteInsert(i)
    \/ \E i \in DOMAIN pending : RemoteUpdate(i)
    \/ \E i \in DOMAIN pending : RemoteDelete(i)
    \/ \E i \in DOMAIN pending : RemoteError(i)
    \/ \E i \in DOMAIN pending : addTodoResume(i)
    \/ \E i \in DOMAIN pending : toggleTodoResume(i)
    \/ \E i \in DOMAIN pending : deleteTodoResume(i)

Spec == Init /\ [][Next]_vars

----------------------------------------------------------------------------
(* The first render of a session over any table: rows of any shape, dated  *)
(* before or after the instant the session starts at.                      *)

AnyRows ==
    [id : {1, 2}, text : {<<"a">>}, completed : BOOLEAN,
     created_date : 0..MaxClock, completed_date : {NULL} \cup 0..MaxClock]

\* Tables of at most two rows, no id twice.
AnyTables ==
    {{}} \cup {{r} : r \in AnyRows}
         \cup {{r, q} : r \in {x \in AnyRows : x.id = 1},
                        q \in {x \in AnyRows : x.id = 2}}

InitAnyTable ==
    /\ todos = <<>>
    /\ inputValue = <<>>
    /\ loading = TRUE
    /\ view = Buckets(<<>>, 1, 0)
    /\ remote \in AnyTables
    /\ nextId = 3
    /\ clock \in 1..MaxClock
    /\ pending = <<>>
    /\ console = {}
    /\ calls = 0
    /\ removed = {}
    /\ rejected = FALSE
    /\ auth = AuthInitial

NextFirstRender == Tick \/ fetchTodos

SpecBuckets == InitAnyTable /\ [][NextFirstRender]_vars

----------------------------------------------------------------------------
(* Toggles one after the other, all succeeding: the table holds a single   *)
(* row, row 1 written open or row 2 written completed, a checkbox is       *)
(* clicked only when no call is outstanding, and no call fails.            *)

OneRowTables == {{OldRow(1, FALSE)}, {OldRow(2, TRUE)}}

\* Whether the row with this id was completed when it was loaded.
WasCompleted(id) ==
    \E rows \in OneRowTables : \E r \in rows : r.id = id /\ r.completed

InitOneRow ==
    /\ todos = <<>>
    /\ inputValue = <<>>
    /\ loading = TRUE
    /\ view = Buckets(<<>>, 1, 0)
    /\ remote \in OneRowTables
    /\ nextId = 3
    /\ clock = 1
    /\ pending = <<>>
    /\ console = {}
    /\ calls = 0
    /\ removed = {}
    /\ rejected = FALSE
    /\ auth = AuthInitial

NextToggleInTurn ==
    \/ Tick
    \/ fetchTodos
    \/ \E v \in Texts : setInputValue(v)
    \/ pending = <<>> /\ \E t \in Rendered : toggleTodo(t)
    \/ \E i \in DOMAIN pending : RemoteUpdate(i)
    \/ \E i \in DOMAIN pending : toggleTodoResume(i)

SpecToggleInTurn == InitOneRow /\ [][NextToggleInTurn]_vars

(* Toggles at once, all succeeding: the checkbox of the single row is      *)
(* clicked again only while no earlier call has resumed, so that every     *)
(* click sees the row as it was loaded.                                    *)

NextToggleAtOnce ==
    \/ Tick
    \/ fetchTodos
    \/ \E v \in Texts : setInputValue(v)
    \/ calls = Len(pending) /\ \E t \in Rendered : toggleTodo(t)
    \/ \E i \in DOMAIN pending : RemoteUpdate(i)
    \/ \E i \in DOMAIN pending : toggleTodoResume(i)

SpecToggleAtOnce == InitOneRow /\ [][NextToggleAtOnce]_vars

----------------------------------------------------------------------------
(* The sign-in form of src/src/Auth.jsx.                                   *)

AppUnchanged ==
    UNCHANGED <<todos, inputValue, loading, view, remote, nextId, clock,
                pending, console, calls, removed, rejected>>

\* onChange of the username input.
setUsername(v) ==
    /\ v # auth.username
    /\ auth' = [auth EXCEPT !.username = v]
    /\ AppUnchanged

\* onChange of the password input.
setPassword(v) ==
    /\ v # auth.password
    /\ auth' = [auth EXCEPT !.password = v]
    /\ AppUnchanged

\* onClick of the button under the form: setIsSignUp(!isSignUp);
\* setError(null).
setIsSignUp ==
    /\ auth' = [auth EXCEPT !.isSignUp = ~auth.isSignUp, !.error = NoError]
    /\ AppUnchanged

\* The request handleSubmit sends.
Request ==
    [phase |-> "sent",
     method |-> IF auth.isSignUp THEN "signUp" ELSE "signInWithPassword",
     email |-> toEmail(auth.username),
     password |-> auth.password,
     message |-> NoError]

\* Whether the browser lets the form be submitted: the submit button is
\* disabled while loading, both inputs are required, the password has
\* minLength.
CanSubmit ==
    /\ ~auth.loading
    /\ auth.username # <<>>
    /\ Len(auth.password) >= minLength

\* handleSubmit without its setError(null).
handleSubmitKeepsError ==
    /\ CanSubmit
    /\ auth' = [auth EXCEPT !.loading = TRUE, !.request = Request]
    /\ AppUnchanged

\* handleSubmit up to its await.
handleSubmit ==
    /\ CanSubmit
    /\ auth' = [auth EXCEPT !.loading = TRUE, !.error = NoError,
                            !.request = Request]
    /\ AppUnchanged

\* supabase.auth answers the request with or without an error.
AuthReply ==
    /\ auth.request.phase = "sent"
    /\ \E m \in {NoError} \cup Messages(auth.request.method) :
           auth' = [auth EXCEPT
                        !.request.phase = IF m = NoError THEN "ok" ELSE "error",
                        !.request.message = m]
    /\ AppUnchanged

\* handleSubmit from its await on: if (error) setError(error.message);
\* setLoading(false).
handleSubmitResume ==
    /\ auth.request.phase \in {"ok", "error"}
    /\ auth' = [auth EXCEPT
                    !.error = IF auth.request.phase = "error"
                              THEN auth.request.message ELSE @,
                    !.loading = FALSE,
                    !.request = NoRequest]
    /\ AppUnchanged

NextAuth ==
    \/ \E v \in Usernames : setUsername(v)
    \/ \E v \in Passwords : setPassword(v)
    \/ setIsSignUp
    \/ handleSubmit
    \/ AuthReply
    \/ handleSubmitResume

SpecAuth == Init /\ [][NextAuth]_vars

----------------------------------------------------------------------------
(* The state App exposes to what it renders: its three useState values.    *)

AppState == [todos |-> todos, inputValue |-> inputValue, loading |-> loading]

\* The last-error value of that state, null when it holds none.
LastError == IF "error" \in DOMAIN AppState THEN AppState.error ELSE NULL

\* The fields of a row that a toggle writes.
Completion(r) ==
    [id |-> r.id, completed |-> r.completed, completed_date |-> r.completed_date]

MutationKinds == {"insert", "update", "delete"}

\* Call i of pending resumes in this step, having returned an error.
ResumesFailed(i) ==
    /\ pending[i].phase = "error"
    /\ addTodoResume(i) \/ toggleTodoResume(i) \/ deleteTodoResume(i)

----------------------------------------------------------------------------
(* C1: once every issued remote call has resolved (the initial fetch       *)
(* having succeeded), the local collection holds exactly the rows of the   *)
(* remote table, with the same completed and completed_date for every id.  *)
C1_LocalRemoteConvergence ==
    (~loading /\ "fetch" \notin console /\ pending = <<>>) =>
        /\ {Completion(r) : r \in Items(todos)} = {Completion(r) : r \in remote}
        /\ Len(todos) = Cardinality(remote)

C3_DeletedIsTerminal == Ids(todos) \cap removed = {}

C5_FailedAddOrDeleteChangesNothing ==
    [][\A i \in DOMAIN pending :
          ((addTodoResume(i) \/ deleteTodoResume(i)) /\ pending[i].phase = "error") =>
              todos' = todos /\ view' = view]_vars

\* An insert and a delete have both failed, and the row is still there.
C5_Witness == {"insert", "delete"} \subseteq console /\ todos # <<>>

IsBlank(s) == \A k \in DOMAIN s : IsSpace(s[k])

(* C7: addTodo with a text that is empty or white space only sends no      *)
(* remote call and leaves the local collection unchanged.                  *)
C7_BlankAddIsNoOp ==
    [][(addTodo /\ IsBlank(inputValue)) =>
          UNCHANGED <<pending, calls, remote, todos, view, inputValue>>]_vars

\* addTodo has just returned at its guard with white space in the box.
C7_Witness == rejected /\ inputValue # <<>>

(* C8: every row of the local collection is completed if and only if its   *)
(* completed_date is not null.                                             *)
C8_CompletedIffDated ==
    \A j \in DOMAIN todos : todos[j].completed <=> (todos[j].completed_date # NULL)

\* A row completed by a toggle of this session (instants from 1 on).
C8_Witness ==
    \E j \in DOMAIN todos : todos[j].completed /\ todos[j].completed_date >= 1

(* C9: no two rows of the local collection have the same id.               *)
C9_IdsUnique ==
    \A j, k \in DOMAIN todos : j # k => todos[j].id # todos[k].id

\* A row inserted in this session stands before an older one.
C9_Witness ==
    /\ Len(todos) >= 2
    /\ todos[1].created_date >= 1
    /\ "fetch" \notin console

(* C10: in the buckets of one render, no row is in more than one of        *)
(* todayTasks, todayCompleted and pastCompleted.                           *)
C10_BucketsDisjoint ==
    /\ Items(view.todayTasks) \cap Items(view.todayCompleted) = {}
    /\ Items(view.todayTasks) \cap Items(view.pastCompleted) = {}
    /\ Items(view.todayCompleted) \cap Items(view.pastCompleted) = {}

----------------------------------------------------------------------------
\* Two instants of the same local calendar day.
SameDay(a, b) == a \div SlotsPerDay = b \div SlotsPerDay

\* The bucket rule of a row r for the instant now, bucket by bucket.
RuleTodayOpen(r, now) == ~r.completed /\ SameDay(r.created_date, now)

RuleTodayCompleted(r, now) ==
    r.completed /\ r.completed_date # NULL /\ SameDay(r.completed_date, now)

RulePastCompleted(r, now) ==
    r.completed /\ r.completed_date # NULL /\ ~SameDay(r.completed_date, now)

----------------------------------------------------------------------------
(* C12: after two toggles of the same row, the second issued once the      *)
(* first has resumed and the collection is rendered again, both            *)
(* succeeding, the row has its original completed value; completed_date is *)
(* null again for a row that was open, and non-null for a row that was     *)
(* completed.  (Row 1 starts open, row 2 starts completed.)                *)
C12_TwoTogglesRestore ==
    (calls = 2 /\ pending = <<>>) =>
        \A j \in DOMAIN todos :
            LET was == WasCompleted(todos[j].id) IN
            /\ todos[j].completed = was
            /\ ~was => todos[j].completed_date = NULL
            /\ was => todos[j].completed_date # NULL

\* Row 2, completed at the start, has been un-completed and completed
\* again: its completed_date is the instant of the second toggle.
C12_Witness ==
    /\ calls = 2
    /\ pending = <<>>
    /\ \E j \in DOMAIN todos :
           todos[j].id = 2 /\ todos[j].completed /\ todos[j].completed_date >= 1

----------------------------------------------------------------------------
\* The steps after which React renders App again: a state setter ran.
Renders ==
    \/ fetchTodos
    \/ \E v \in Texts : setInputValue(v)
    \/ \E i \in DOMAIN pending :
          /\ pending[i].phase = "ok"
          /\ addTodoResume(i) \/ toggleTodoResume(i) \/ deleteTodoResume(i)

(* C13: a row completed on day d (completed_date stamped by toggleTodo)    *)
(* is put by every render in exactly one bucket: todayCompleted only when  *)
(* the render's 'now' is on day d, pastCompleted only when it is on a      *)
(* later day ('now' being an instant between the start and the end of the  *)
(* render); and a row shown in pastCompleted by one render is not shown in *)
(* todayCompleted by the next unless it has been mutated in between.       *)
C13_CompletedMovesToPast ==
    [][Renders =>
          /\ \A r \in Items(todos') :
                 (r.completed /\ r.completed_date # NULL) =>
                     /\ r \notin Items(view'.todayTasks)
                     /\ \E now \in {clock, clock'} :
                            IF SameDay(r.completed_date, now)
                            THEN /\ r \in Items(view'.todayCompleted)
                                 /\ r \notin Items(view'.pastCompleted)
                            ELSE /\ r \in Items(view'.pastCompleted)
                                 /\ r \notin Items(view'.todayCompleted)
          /\ \A r \in Items(view.pastCompleted) :
                 r \notin Items(view'.todayCompleted)]_vars

----------------------------------------------------------------------------
(* C14: a call that resumes after a success changes todos only by its own  *)
(* effect on todos as it stands just before the resumption: an insert      *)
(* prepends the new row to it, an update changes only the row with the     *)
(* call's id, a delete removes only that row; what other calls have set    *)
(* in the meantime is kept.                                                *)
C14_ResumeAppliesToCurrent ==
    [][\A i \in DOMAIN pending :
          LET c == pending[i] IN
          c.phase = "ok" =>
              /\ addTodoResume(i) => todos' = <<c.data>> \o todos
              /\ toggleTodoResume(i) =>
                     todos' = [j \in DOMAIN todos |->
                                  IF todos[j].id = c.id
                                  THEN Merge(todos[j], c.updates)
                                  ELSE todos[j]]
              /\ deleteTodoResume(i) =>
                     todos' = Filter(todos, {j \in DOMAIN todos :
                                                todos[j].id # c.id})]_vars

----------------------------------------------------------------------------
(* C15: todos is always ordered by created_date, newest first, whatever    *)
(* the interleaving of the calls.                                          *)
C15_NewestFirst ==
    \A i, j \in DOMAIN todos :
        i < j => todos[i].created_date >= todos[j].created_date

\* A row inserted in this session stands before a row loaded at the start.
C15_Witness ==
    /\ Len(todos) >= 2
    /\ todos[1].created_date >= 1
    /\ todos[Len(todos)].created_date = 0

----------------------------------------------------------------------------
(* C16: loading is true from the start until fetchTodos settles and false  *)
(* ever after, whether the select succeeded or failed; on success todos    *)
(* becomes the returned sequence, on failure it stays empty, and nothing   *)
(* loads the collection again.                                             *)
C16_LoadingUntilFetched ==
    /\ loading = TRUE
    /\ [][/\ loading => (todos = <<>> /\ pending = <<>> /\ console = {})
          /\ ~loading => ~loading'
          /\ "fetch" \in console' => ~loading'
          /\ (loading /\ ~loading') =>
                 IF "fetch" \in console'
                 THEN todos' = <<>>
                 ELSE todos' \in ListAll(remote)
          /\ (~loading /\ pending = <<>>) => todos' = todos]_vars

\* The select failed: the loading screen is gone and todos is empty although
\* the table has a row.
C16_Witness ==
    /\ ~loading
    /\ "fetch" \in console
    /\ todos = <<>>
    /\ remote # {}
    /\ calls = 0

----------------------------------------------------------------------------
\* id, text and created_date of a row.
Identity(r) == <<r.id, r.text, r.created_date>>

(* C17: id, text and created_date of a row never change while it is in     *)
(* todos, locally or in the table, under any interleaving; a toggle that   *)
(* resumes writes only completed and completed_date.                       *)
C17_IdentityIsFrozen ==
    [][/\ \A r \in Items(todos), q \in Items(todos') :
              r.id = q.id => Identity(r) = Identity(q)
       /\ \A r \in remote, q \in remote' :
              r.id = q.id => Identity(r) = Identity(q)
       /\ \A i \in DOMAIN pending :
              (pending[i].phase = "ok" /\ toggleTodoResume(i)) =>
                  /\ Len(todos') = Len(pending[i].snap)
                  /\ \A j \in DOMAIN todos' :
                         Identity(todos'[j]) = Identity(pending[i].snap[j])]_vars

\* Row 1, loaded at the start, has been completed in this session and still
\* has its id, text and created_date.
C17_Witness ==
    /\ pending = <<>>
    /\ \E r \in Items(todos) :
           /\ Identity(r) = Identity(OldRow(1, FALSE))
           /\ r.completed_date >= 1
           /\ r \in remote

----------------------------------------------------------------------------
(* C18: toggles of the same row that are all issued while the rendered row *)
(* shows completed = c, each before any earlier one has resumed, send the  *)
(* same update completed = ~c; once two of them have resumed after a       *)
(* success, the row has completed = ~c in todos and in the table, whatever *)
(* the order in which the table processed them and they resumed.           *)
C18_TogglesAtOnceAgree ==
    /\ \A i \in DOMAIN pending :
           pending[i].updates.completed = ~WasCompleted(pending[i].id)
    /\ (calls >= 2 /\ pending = <<>>) =>
           /\ \A r \in Items(todos) : r.completed = ~WasCompleted(r.id)
           /\ \A r \in remote : r.completed = ~WasCompleted(r.id)

\* Two toggles of row 1, loaded open, have resumed: it is completed in todos
\* and in the table.
C18_Witness ==
    /\ calls = 2
    /\ pending = <<>>
    /\ \E r \in Items(todos) : r.id = 1 /\ r.completed
    /\ \E r \in remote : r.id = 1 /\ r.completed

----------------------------------------------------------------------------
(* C19: every submit of the Auth form sets loading to true and error to    *)
(* null before its request is sent, and they stay so while the request is  *)
(* unanswered; when handleSubmit resumes, loading is false in every case   *)
(* and error is non-null exactly when the request returned an error;       *)
(* switching between sign-in and sign-up sets error to null and leaves     *)
(* loading as it is.                                                       *)
C19_SubmitLoadingAndError ==
    [][/\ (auth.request.phase = "none" /\ auth'.request.phase = "sent") =>
              auth'.loading /\ auth'.error = NoError
       /\ auth.request.phase = "sent" => (auth.loading /\ auth.error = NoError)
       /\ (auth.request.phase # "none" /\ auth'.request.phase = "none") =>
              /\ ~auth'.loading
              /\ auth'.error # NoError <=> auth.request.phase = "error"
       /\ auth'.isSignUp # auth.isSignUp =>
              (auth'.error = NoError /\ auth'.loading = auth.loading)]_vars

\* A sign-up was sent, the form was switched to sign-in while it was in
\* flight, and the sign-up has resumed with its error.
C19_Witness ==
    /\ ~auth.loading
    /\ auth.request = NoRequest
    /\ ~auth.isSignUp
    /\ auth.error \in Messages("signUp")

====
